---- MODULE Spec2Model ----
(***************************************************************************)
(* DOMNavigator (src/src/dom-navigator.js): arrow-key navigation over the  *)
(* elements of a container.  The model holds the navigator's fields, the   *)
(* part of the document it reads and writes (element geometry, the         *)
(* selected class, input focus, scroll offsets, keydown listeners) and one *)
(* action per public method and per listener invocation.                   *)
(***************************************************************************)
EXTENDS Integers, Sequences, FiniteSets, TLC

\* ---------------------------------------------------------------- bounds
MaxEls == 2        \* most elements of a list (Spec, SpecNav, SpecLife)
MaxCands == 3      \* most elements laid out freely (SpecGeo)
MaxCoord == 1      \* largest left/top offset of a freely laid out element
MaxSize == 2       \* largest height of a freely laid out element
MaxEnables == 2    \* most enable() calls in one behaviour

\* ------------------------------------------------------- program constants
Infinity == 1000   \* stands for the JavaScript value Infinity
KeyLeft == 37
KeyUp == 38
KeyRight == 39
KeyDown == 40

\* DOMNavigator.DIRECTION
DIRECTION == [left |-> "left", up |-> "up", right |-> "right", down |-> "down"]

Directions == {DIRECTION.left, DIRECTION.up, DIRECTION.right, DIRECTION.down}

\* A direction argument that is left out (undefined).
NoDir == "undefined"

\* Values of this.selected that are not elements: null (set by init), and the
\* prototype method selected() that a read of this.selected finds once the
\* instance property has been deleted.
NULL == 0

METHOD == -1

\* The scroll container: this.scroll_container, by default the container.
Container == [offsetLeft |-> 0, offsetTop |-> 1, offsetWidth |-> 2, offsetHeight |-> 1]

\* window.innerWidth/innerHeight; documentElement.clientWidth/clientHeight
\* are the same (no scroll bars); document.body has offset (0, 0).
Window == [innerWidth |-> 2, innerHeight |-> 1]

Body == [offsetLeft |-> 0, offsetTop |-> 0]

VARIABLES
    dom,            \* the elements the selector matches, in document order:
                    \* dom[i] is the geometry and kind of element i
    elements,       \* this.elements: element ids, in the order of the last scan
    selected,       \* this.selected: NULL, METHOD or an element id
    enabled,        \* this.enabled: "undefined", "true" or "false"
    keydownHandler, \* this.keydownHandler: 0 (null) or the id of the closure
    listeners,      \* the keydown listeners registered on the document
    backref,        \* whether container.domNavigator is set
    marked,         \* the elements carrying the options.selected class
    focused,        \* the element holding input focus, 0 when none does
    cScroll,        \* [left, top]: scrollLeft/scrollTop of the scroll container
    bScroll,        \* [left, top]: scrollLeft/scrollTop of document.body
    pending,        \* listeners the current keydown event is still to reach
    evKey,          \* event.which of the keydown event being dispatched
    defaultPrevented, \* whether a listener has called event.preventDefault()
    last            \* the call that ran last, its arguments and its outcome

vars == <<dom, elements, selected, enabled, keydownHandler, listeners, backref,
          marked, focused, cScroll, bScroll, pending, evKey, defaultPrevented,
          last>>

Ids == 1..Len(dom)

Abs(x) == IF x < 0 THEN -x ELSE x

Max(a, b) == IF a >= b THEN a ELSE b

\* The hotkeys map built by init(): event.which -> direction, NoDir if unbound.
keys(which) ==
    CASE which = KeyLeft -> DIRECTION.left
      [] which = KeyUp -> DIRECTION.up
      [] which = KeyRight -> DIRECTION.right
      [] which = KeyDown -> DIRECTION.down
      [] OTHER -> NoDir

\* event.which of the keys pressed: the four bound keys and Enter, which is
\* bound to nothing.
Keys == {KeyLeft, KeyUp, KeyRight, KeyDown, 13}

\* -------------------------------------------------------- document geometry
\* Largest scrollLeft/scrollTop the scroll container takes: its content (the
\* elements) beyond its own box.  Writes to scrollLeft/scrollTop are clamped
\* to 0..max by the document.
RECURSIVE Extent(_, _, _)
Extent(i, horizontal, acc) ==
    IF i > Len(dom) THEN acc
    ELSE Extent(i + 1, horizontal,
                Max(acc, IF horizontal
                         THEN dom[i].offsetLeft + dom[i].offsetWidth - Container.offsetLeft
                         ELSE dom[i].offsetTop + dom[i].offsetHeight - Container.offsetTop))

containerScrollMax ==
    [left |-> Extent(1, TRUE, Container.offsetWidth) - Container.offsetWidth,
     top |-> Extent(1, FALSE, Container.offsetHeight) - Container.offsetHeight]

\* Largest scrollLeft/scrollTop of document.body: the page ends with the
\* scroll container's box.
bodyScrollMax ==
    [left |-> Max(0, Container.offsetLeft + Container.offsetWidth - Window.innerWidth),
     top |-> Max(0, Container.offsetTop + Container.offsetHeight - Window.innerHeight)]

\* What a write of v to scrollLeft/scrollTop stores.
SetScroll(v, max) == IF v < 0 THEN 0 ELSE IF v > max THEN max ELSE v

\* el.getBoundingClientRect(): the element's box relative to the window.
getBoundingClientRect(el) ==
    LET l == dom[el].offsetLeft - cScroll.left - bScroll.left
        t == dom[el].offsetTop - cScroll.top - bScroll.top
    IN  [left |-> l, top |-> t,
         right |-> l + dom[el].offsetWidth, bottom |-> t + dom[el].offsetHeight]

inViewport(el) ==
    LET rect == getBoundingClientRect(el)
    IN  /\ rect.top >= 0
        /\ rect.left >= 0
        /\ rect.bottom <= Window.innerHeight
        /\ rect.right <= Window.innerWidth

\* The offset-parent chain of an element is the element, then document.body.
absoluteOffsetTop(el) == dom[el].offsetTop + Body.offsetTop

absoluteOffsetLeft(el) == dom[el].offsetLeft + Body.offsetLeft

inScrollContainerViewport(el) ==
    IF dom[el].offsetLeft - cScroll.left < Container.offsetLeft THEN FALSE
    ELSE IF dom[el].offsetTop - cScroll.top < Container.offsetTop THEN FALSE
    ELSE IF dom[el].offsetLeft + dom[el].offsetWidth - cScroll.left
              > Container.offsetLeft + Container.offsetWidth THEN FALSE
    ELSE IF dom[el].offsetTop + dom[el].offsetHeight - cScroll.top
              > Container.offsetTop + Container.offsetHeight THEN FALSE
    ELSE TRUE

\* scrollTo that makes the window check whatever the scroll-container check
\* says.
scrollTo_BothChecks(el, direction) ==
    LET horizontal == direction \in {DIRECTION.left, DIRECTION.right}
        far == direction \in {DIRECTION.right, DIRECTION.down}
        cLeft == dom[el].offsetLeft - Container.offsetLeft
                   - (IF far THEN Container.offsetWidth - dom[el].offsetWidth ELSE 0)
        cTop == dom[el].offsetTop - Container.offsetTop
                   - (IF far THEN Container.offsetHeight - dom[el].offsetHeight ELSE 0)
        bLeft == absoluteOffsetLeft(el) - Body.offsetLeft
                   - (IF far THEN Window.innerWidth - dom[el].offsetWidth ELSE 0)
        bTop == absoluteOffsetTop(el) - Body.offsetTop
                   - (IF far THEN Window.innerHeight - dom[el].offsetHeight ELSE 0)
    IN  [c |-> IF direction \notin Directions \/ inScrollContainerViewport(el)
               THEN cScroll
               ELSE IF horizontal
               THEN [cScroll EXCEPT !.left = SetScroll(cLeft, containerScrollMax.left)]
               ELSE [cScroll EXCEPT !.top = SetScroll(cTop, containerScrollMax.top)],
         b |-> IF direction \notin Directions \/ inViewport(el)
               THEN bScroll
               ELSE IF horizontal
               THEN [bScroll EXCEPT !.left = SetScroll(bLeft, bodyScrollMax.left)]
               ELSE [bScroll EXCEPT !.top = SetScroll(bTop, bodyScrollMax.top)]]

\* scrollTo that aligns leading edges for right and down as it does for left
\* and up.
scrollTo_AlignsLeading(el, direction) ==
    LET horizontal == direction \in {DIRECTION.left, DIRECTION.right}
    IN  IF direction \notin Directions THEN [c |-> cScroll, b |-> bScroll]
        ELSE IF ~inScrollContainerViewport(el) THEN
            [b |-> bScroll,
             c |-> IF horizontal
                   THEN [cScroll EXCEPT !.left =
                            SetScroll(dom[el].offsetLeft - Container.offsetLeft,
                                      containerScrollMax.left)]
                   ELSE [cScroll EXCEPT !.top =
                            SetScroll(dom[el].offsetTop - Container.offsetTop,
                                      containerScrollMax.top)]]
        ELSE IF ~inViewport(el) THEN
            [c |-> cScroll,
             b |-> IF horizontal
                   THEN [bScroll EXCEPT !.left =
                            SetScroll(absoluteOffsetLeft(el) - Body.offsetLeft,
                                      bodyScrollMax.left)]
                   ELSE [bScroll EXCEPT !.top =
                            SetScroll(absoluteOffsetTop(el) - Body.offsetTop,
                                      bodyScrollMax.top)]]
        ELSE [c |-> cScroll, b |-> bScroll]

\* scrollTo(el, direction): the scroll offsets [c |-> container, b |-> body]
\* it leaves.  A direction outside the four matches no case of the switch.
scrollTo(el, direction) ==
    IF ~inScrollContainerViewport(el) THEN
        [b |-> bScroll,
         c |-> CASE direction = DIRECTION.left ->
                      [cScroll EXCEPT !.left =
                          SetScroll(dom[el].offsetLeft - Container.offsetLeft,
                                    containerScrollMax.left)]
                 [] direction = DIRECTION.up ->
                      [cScroll EXCEPT !.top =
                          SetScroll(dom[el].offsetTop - Container.offsetTop,
                                    containerScrollMax.top)]
                 [] direction = DIRECTION.right ->
                      [cScroll EXCEPT !.left =
                          SetScroll(dom[el].offsetLeft - Container.offsetLeft
                                      - (Container.offsetWidth - dom[el].offsetWidth),
                                    containerScrollMax.left)]
                 [] direction = DIRECTION.down ->
                      [cScroll EXCEPT !.top =
                          SetScroll(dom[el].offsetTop - Container.offsetTop
                                      - (Container.offsetHeight - dom[el].offsetHeight),
                                    containerScrollMax.top)]
                 [] OTHER -> cScroll]
    ELSE IF ~inViewport(el) THEN
        [c |-> cScroll,
         b |-> CASE direction = DIRECTION.left ->
                      [bScroll EXCEPT !.left =
                          SetScroll(absoluteOffsetLeft(el) - Body.offsetLeft,
                                    bodyScrollMax.left)]
                 [] direction = DIRECTION.up ->
                      [bScroll EXCEPT !.top =
                          SetScroll(absoluteOffsetTop(el) - Body.offsetTop,
                                    bodyScrollMax.top)]
                 [] direction = DIRECTION.right ->
                      [bScroll EXCEPT !.left =
                          SetScroll(absoluteOffsetLeft(el) - Body.offsetLeft
                                      - (Window.innerWidth - dom[el].offsetWidth),
                                    bodyScrollMax.left)]
                 [] direction = DIRECTION.down ->
                      [bScroll EXCEPT !.top =
                          SetScroll(absoluteOffsetTop(el) - Body.offsetTop
                                      - (Window.innerHeight - dom[el].offsetHeight),
                                    bodyScrollMax.top)]
                 [] OTHER -> bScroll]
    ELSE [c |-> cScroll, b |-> bScroll]

\* ------------------------------------------------------ nearest neighbour
IsElement(x) == x \in Ids

\* Position of element el in this.elements, 0 when it is not there.
IndexOf(el) ==
    IF \E i \in 1..Len(elements) : elements[i] = el
    THEN CHOOSE i \in 1..Len(elements) : elements[i] = el
    ELSE 0

\* u.getNextElement(el, selector) and u.getPreviousElement(el, selector) of
\* utils/html: the candidate following / preceding el in sequence order,
\* NULL at the end / start.  Given the method that this.selected reads as once
\* the property is deleted, they find no element.
uGetNextElement(el) ==
    LET i == IndexOf(el)
    IN  IF i > 0 /\ i < Len(elements) THEN elements[i + 1] ELSE NULL

uGetPreviousElement(el) ==
    LET i == IndexOf(el)
    IN  IF i > 1 THEN elements[i - 1] ELSE NULL

\* elementsAfter without the top bound.
elementsAfter_AnyTop(left, top) ==
    SelectSeq(elements, LAMBDA el : dom[el].offsetLeft >= left)

\* elementsAfter with the left bound strict.
elementsAfter_StrictLeft(left, top) ==
    SelectSeq(elements, LAMBDA el : dom[el].offsetLeft > left /\ dom[el].offsetTop >= top)

\* elementsAfter with the top bound strict.
elementsAfter_StrictTop(left, top) ==
    SelectSeq(elements, LAMBDA el : dom[el].offsetLeft >= left /\ dom[el].offsetTop > top)

\* elementsBefore with the top bound strict.
elementsBefore_StrictTop(left, top) ==
    SelectSeq(elements, LAMBDA el : dom[el].offsetLeft <= left /\ dom[el].offsetTop < top)

elementsAfter(left, top) ==
    SelectSeq(elements, LAMBDA el : dom[el].offsetLeft >= left /\ dom[el].offsetTop >= top)

elementsBefore(left, top) ==
    SelectSeq(elements, LAMBDA el : dom[el].offsetLeft <= left /\ dom[el].offsetTop <= top)

\* The two getDistance closures of getNextElement.
getDistance(el, left, top, direction) ==
    IF direction = DIRECTION.down
    THEN Abs(dom[el].offsetLeft - left) + Abs(dom[el].offsetTop - top)
    ELSE Abs(left - dom[el].offsetLeft) + Abs(top - dom[el].offsetTop)

\* The reduction with a candidate as near as the best so far replacing it.
RECURSIVE reduce_LastWins(_, _, _, _, _)
reduce_LastWins(els, prev, left, top, direction) ==
    IF els = <<>> THEN prev
    ELSE LET curr == Head(els)
             current_distance == getDistance(curr, left, top, direction)
         IN  reduce_LastWins(Tail(els),
                             IF current_distance <= prev.distance
                             THEN [distance |-> current_distance, element |-> curr]
                             ELSE prev,
                             left, top, direction)

\* els.reduce(...) of getNextElement, from the accumulator prev on.
RECURSIVE reduce(_, _, _, _, _)
reduce(els, prev, left, top, direction) ==
    IF els = <<>> THEN prev
    ELSE LET curr == Head(els)
             current_distance == getDistance(curr, left, top, direction)
         IN  reduce(Tail(els),
                    IF current_distance < prev.distance
                    THEN [distance |-> current_distance, element |-> curr]
                    ELSE prev,
                    left, top, direction)

\* getNextElement with the right and left branches exchanged.
getNextElement_Swapped(direction) ==
    IF direction = DIRECTION.right THEN uGetPreviousElement(selected)
    ELSE IF direction = DIRECTION.left THEN uGetNextElement(selected)
    ELSE NULL

\* getNextElement(direction) for one of the four directions, this.selected
\* being an element or METHOD; NULL when there is no next element.  With
\* METHOD selected, offsetLeft/offsetTop are undefined, top is NaN, every
\* comparison of the filters is false and els is empty.
getNextElement(direction) ==
    IF direction = DIRECTION.right THEN
        uGetNextElement(selected)
    ELSE IF direction = DIRECTION.left THEN
        uGetPreviousElement(selected)
    ELSE
        LET left == IF IsElement(selected) THEN dom[selected].offsetLeft ELSE 0
            top == IF ~IsElement(selected) THEN 0
                   ELSE IF direction = DIRECTION.down
                        THEN dom[selected].offsetTop + dom[selected].offsetHeight
                        ELSE dom[selected].offsetTop - 1
            els == IF ~IsElement(selected) THEN <<>>
                   ELSE IF direction = DIRECTION.down
                        THEN elementsAfter(0, top)
                        ELSE elementsBefore(Infinity, top)
            next == reduce(els, [distance |-> Infinity, element |-> NULL],
                           left, top, direction)
        IN  next.element

\* ------------------------------------------------------------- operations
\* u.removeClass(className, el) of utils/html: the elements that carry the
\* class afterwards.  Handed something that is not an element it changes
\* nothing and does not throw.
uRemoveClass(el) == IF IsElement(el) THEN marked \ {el} ELSE marked

\* What unselect() leaves of [selected, marked].  u.removeClass changes
\* nothing when handed the method instead of an element; delete
\* this.selected uncovers the prototype method selected().
unselect ==
    IF selected # NULL
    THEN [selected |-> METHOD, marked |-> uRemoveClass(selected)]
    ELSE [selected |-> selected, marked |-> marked]

\* select without the test for the element already selected.
select_NoSameCheck(el, direction) ==
    IF el = NULL THEN
        UNCHANGED <<selected, marked, focused, cScroll, bScroll>>
    ELSE
        LET scrolled == IF direction # NoDir THEN scrollTo(el, direction)
                        ELSE [c |-> cScroll, b |-> bScroll]
        IN  /\ cScroll' = scrolled.c
            /\ bScroll' = scrolled.b
            /\ IF dom[el].input
               THEN /\ focused' = el
                    /\ marked' = unselect.marked
               ELSE /\ marked' = unselect.marked \cup {el}
                    /\ UNCHANGED focused
            /\ selected' = el

\* select that scrolls only when something was selected before.
select_NoFirstScroll(el, direction) ==
    IF el = NULL \/ el = selected THEN
        UNCHANGED <<selected, marked, focused, cScroll, bScroll>>
    ELSE
        LET scrolled == IF direction # NoDir /\ selected # NULL
                        THEN scrollTo(el, direction)
                        ELSE [c |-> cScroll, b |-> bScroll]
        IN  /\ cScroll' = scrolled.c
            /\ bScroll' = scrolled.b
            /\ IF dom[el].input
               THEN /\ focused' = el
                    /\ marked' = unselect.marked
               ELSE /\ marked' = unselect.marked \cup {el}
                    /\ UNCHANGED focused
            /\ selected' = el

\* select(el, direction) on the navigator and the document.
select(el, direction) ==
    IF el = NULL \/ el = selected THEN
        UNCHANGED <<selected, marked, focused, cScroll, bScroll>>
    ELSE
        LET scrolled == IF direction # NoDir THEN scrollTo(el, direction)
                        ELSE [c |-> cScroll, b |-> bScroll]
        IN  /\ cScroll' = scrolled.c
            /\ bScroll' = scrolled.b
            /\ IF dom[el].input
               THEN /\ focused' = el
                    /\ marked' = unselect.marked
               ELSE /\ marked' = unselect.marked \cup {el}
                    /\ UNCHANGED focused
            /\ selected' = el

\* The record of a call: its arguments, this.selected and this.enabled as it
\* found them, and whether it threw.
Call(op, el, direction, threw) ==
    [op |-> op, el |-> el, dir |-> direction, from |-> selected, was |-> enabled,
     threw |-> threw]

\* getElements(): the elements the selector matches now, in document order.
getElements == [i \in 1..Len(dom) |-> i]

Idle == pending = 0

Enable ==
    /\ Idle
    /\ keydownHandler < MaxEnables
    /\ elements' = getElements
    /\ keydownHandler' = keydownHandler + 1
    /\ listeners' = listeners \cup {keydownHandler + 1}
    /\ enabled' = "true"
    /\ last' = Call("enable", NULL, NoDir, FALSE)
    /\ UNCHANGED <<dom, selected, backref, marked, focused, cScroll, bScroll,
                   pending, evKey, defaultPrevented>>

\* disable that calls unselect only while the navigator is enabled, and
\* otherwise resets the stored selection to null.
disable_ResetWhenOff ==
    /\ listeners' = IF keydownHandler # 0 THEN listeners \ {keydownHandler}
                    ELSE listeners
    /\ selected' = IF enabled = "true" THEN unselect.selected ELSE NULL
    /\ marked' = unselect.marked
    /\ enabled' = "false"

disable ==
    /\ listeners' = IF keydownHandler # 0 THEN listeners \ {keydownHandler}
                    ELSE listeners
    /\ selected' = unselect.selected
    /\ marked' = unselect.marked
    /\ enabled' = "false"

\* disable() that also drops the candidate sequence.
Disable_DropsElements ==
    /\ Idle
    /\ disable
    /\ elements' = <<>>
    /\ last' = Call("disable", NULL, NoDir, FALSE)
    /\ UNCHANGED <<dom, keydownHandler, backref, focused, cScroll, bScroll,
                   pending, evKey, defaultPrevented>>

Disable ==
    /\ Idle
    /\ disable
    /\ last' = Call("disable", NULL, NoDir, FALSE)
    /\ UNCHANGED <<dom, elements, keydownHandler, backref, focused, cScroll,
                   bScroll, pending, evKey, defaultPrevented>>

Destroy ==
    /\ Idle
    /\ disable
    /\ backref' = FALSE
    /\ last' = Call("destroy", NULL, NoDir, FALSE)
    /\ UNCHANGED <<dom, elements, keydownHandler, focused, cScroll, bScroll,
                   pending, evKey, defaultPrevented>>

Select(el, direction) ==
    /\ Idle
    /\ select(el, direction)
    /\ last' = Call("select", el, direction, FALSE)
    /\ UNCHANGED <<dom, elements, enabled, keydownHandler, listeners, backref,
                   pending, evKey, defaultPrevented>>

Unselect ==
    /\ Idle
    /\ selected' = unselect.selected
    /\ marked' = unselect.marked
    /\ last' = Call("unselect", NULL, NoDir, FALSE)
    /\ UNCHANGED <<dom, elements, enabled, keydownHandler, listeners, backref,
                   focused, cScroll, bScroll, pending, evKey, defaultPrevented>>

\* A key goes down: the document calls every registered keydown listener,
\* one after the other.
KeyPress(which) ==
    /\ Idle
    /\ listeners # {}
    /\ pending' = Cardinality(listeners)
    /\ evKey' = which
    /\ defaultPrevented' = FALSE
    /\ last' = Call("keypress", NULL, keys(which), FALSE)
    /\ UNCHANGED <<dom, elements, selected, enabled, keydownHandler, listeners,
                   backref, marked, focused, cScroll, bScroll>>

\* The first element the selector matches in the document as it is now.
firstElement_Live == IF dom # <<>> THEN 1 ELSE NULL

\* this.elements[0]: the first element of the last scan, undefined (no
\* element) when the scan found none.
firstElement == IF elements # <<>> THEN elements[1] ELSE NULL

\* One listener runs handleKeydown(event).  With the method as this.selected,
\* u.getNextElement / u.getPreviousElement either find nothing or throw.
HandleKeydown ==
    /\ pending > 0
    /\ pending' = pending - 1
    /\ defaultPrevented' = (defaultPrevented \/ keys(evKey) # NoDir)
    /\ LET direction == keys(evKey)
       IN  IF direction # NoDir THEN
               LET next == IF selected # NULL THEN getNextElement(direction)
                           ELSE firstElement
               IN  \E threw \in IF selected = METHOD
                                   /\ direction \in {DIRECTION.left, DIRECTION.right}
                                THEN BOOLEAN ELSE {FALSE} :
                       /\ select(next, direction)
                       /\ last' = Call("handleKeydown", next, direction, threw)
           ELSE
               /\ last' = Call("handleKeydown", NULL, NoDir, FALSE)
               /\ UNCHANGED <<selected, marked, focused, cScroll, bScroll>>
    /\ UNCHANGED <<dom, elements, enabled, keydownHandler, listeners, backref, evKey>>

\* ------------------------------------------------------------ the document
Element(left, top, height, input) ==
    [offsetLeft |-> Container.offsetLeft + left,
     offsetTop |-> Container.offsetTop + top,
     offsetWidth |-> 1, offsetHeight |-> height, input |-> input]

\* A list: the elements one below the other, each one unit high, any of them
\* a text input.
ListLayouts ==
    UNION {{[i \in 1..n |-> Element(0, i - 1, 1, inputs[i])] :
               inputs \in [1..n -> BOOLEAN]} : n \in 0..MaxEls}

\* The state the constructor leaves (init()), in a document whose scroll
\* container the user may have scrolled.
Init ==
    /\ dom \in ListLayouts
    /\ elements = <<>>
    /\ selected = NULL
    /\ enabled = "undefined"
    /\ keydownHandler = 0
    /\ listeners = {}
    /\ backref \in BOOLEAN
    /\ marked = {}
    /\ focused = 0
    /\ cScroll \in [left : {0}, top : 0..containerScrollMax.top]
    /\ bScroll = [left |-> 0, top |-> 0]
    /\ pending = 0
    /\ evKey = 0
    /\ defaultPrevented = FALSE
    /\ last = [op |-> "constructor", el |-> NULL, dir |-> NoDir, from |-> NULL,
               was |-> "undefined", threw |-> FALSE]

\* getNextElement that returns nothing for a direction outside the four.
getNextElementThrows_InvalidIgnored(direction) ==
    IF direction \notin Directions THEN {FALSE}
    ELSE IF IsElement(selected) THEN {FALSE}
    ELSE IF direction \in {DIRECTION.left, DIRECTION.right} THEN BOOLEAN
    ELSE IF selected = NULL THEN {TRUE}
    ELSE {FALSE}

\* Whether getNextElement(direction) throws: the outcomes it can have.  A
\* direction outside the four reaches the final else and throws.  With null
\* selected, down and up read a property of null; with null or the method
\* selected, u.getNextElement / u.getPreviousElement find nothing or throw.
getNextElementThrows(direction) ==
    IF direction \notin Directions THEN {TRUE}
    ELSE IF IsElement(selected) THEN {FALSE}
    ELSE IF direction \in {DIRECTION.left, DIRECTION.right} THEN BOOLEAN
    ELSE IF selected = NULL THEN {TRUE}
    ELSE {FALSE}

\* getNextElement(direction) called from outside.
GetNextElement(direction) ==
    /\ Idle
    /\ \E threw \in getNextElementThrows(direction) :
          last' = IF threw
                  THEN Call("getNextElement", NULL, direction, TRUE)
                  ELSE Call("getNextElement", getNextElement(direction), direction, FALSE)
    /\ UNCHANGED <<dom, elements, selected, enabled, keydownHandler, listeners,
                   backref, marked, focused, cScroll, bScroll, pending, evKey,
                   defaultPrevented>>

Next ==
    \/ Enable
    \/ Disable
    \/ Destroy
    \/ \E el \in Ids \cup {NULL}, direction \in Directions \cup {NoDir} :
          Select(el, direction)
    \/ Unselect
    \/ \E which \in Keys : KeyPress(which)
    \/ HandleKeydown

Spec == Init /\ [][Next]_vars

\* scrollTo(el, direction) called from outside.  The record of the call
\* also holds the scroll offsets it found.
ScrollTo(el, direction) ==
    /\ Idle
    /\ cScroll' = scrollTo(el, direction).c
    /\ bScroll' = scrollTo(el, direction).b
    /\ last' = [op |-> "scrollTo", el |-> el, dir |-> direction, from |-> selected,
                was |-> enabled, threw |-> FALSE, cWas |-> cScroll, bWas |-> bScroll]
    /\ UNCHANGED <<dom, elements, selected, enabled, keydownHandler, listeners,
                   backref, marked, focused, pending, evKey, defaultPrevented>>

\* The document gains an element, not an input, at the end of the list.
DomAppend ==
    /\ Idle
    /\ Len(dom) < MaxEls
    /\ dom' = Append(dom, Element(0, Len(dom), 1, FALSE))
    /\ last' = Call("append", NULL, NoDir, FALSE)
    /\ UNCHANGED <<elements, selected, enabled, keydownHandler, listeners, backref,
                   marked, focused, cScroll, bScroll, pending, evKey,
                   defaultPrevented>>

\* The whole life of a navigator in a document that grows: every public
\* method, key events, and elements added between the scans.  The list
\* overflows its container only downwards, so scrollTo is called for up and
\* down; getNextElement is called with a direction outside the four.
NextLife ==
    \/ Enable
    \/ Disable
    \/ Destroy
    \/ \E el \in Ids \cup {NULL} : Select(el, NoDir)
    \/ Unselect
    \/ GetNextElement("diagonal")
    \/ \E el \in Ids, direction \in {DIRECTION.up, DIRECTION.down} :
          ScrollTo(el, direction)
    \/ \E which \in Keys : KeyPress(which)
    \/ HandleKeydown
    \/ DomAppend

\* The state the constructor leaves in a document whose container is still
\* empty.
InitLife ==
    /\ dom = <<>>
    /\ elements = <<>>
    /\ selected = NULL
    /\ enabled = "undefined"
    /\ keydownHandler = 0
    /\ listeners = {}
    /\ backref = TRUE
    /\ marked = {}
    /\ focused = 0
    /\ cScroll = [left |-> 0, top |-> 0]
    /\ bScroll = [left |-> 0, top |-> 0]
    /\ pending = 0
    /\ evKey = 0
    /\ defaultPrevented = FALSE
    /\ last = [op |-> "constructor", el |-> NULL, dir |-> NoDir, from |-> NULL,
               was |-> "undefined", threw |-> FALSE]

SpecLife == InitLife /\ [][NextLife]_vars

\* One navigator enabled once and never disabled: selection and key steps.
NextNav ==
    \/ (keydownHandler = 0 /\ Enable)
    \/ \E el \in Ids \cup {NULL}, direction \in Directions \cup {NoDir} :
          Select(el, direction)
    \/ Unselect
    \/ \E which \in Keys : KeyPress(which)
    \/ HandleKeydown

SpecNav == Init /\ [][NextNav]_vars

\* Elements laid out anyhow, left of the container's left edge included, all
\* of one height.
FreeLayouts ==
    UNION {[1..n -> {Element(x, y, height, FALSE) :
                        x \in -1..MaxCoord, y \in 0..MaxCoord}] :
              n \in 1..MaxCands, height \in 1..MaxSize}

\* The state enable() and then select(el) leave, for any element el of any
\* such layout.
InitGeo ==
    /\ dom \in FreeLayouts
    /\ elements = getElements
    /\ selected \in Ids
    /\ enabled = "true"
    /\ keydownHandler = 1
    /\ listeners = {1}
    /\ backref = TRUE
    /\ marked = {selected}
    /\ focused = 0
    /\ cScroll = [left |-> 0, top |-> 0]
    /\ bScroll = [left |-> 0, top |-> 0]
    /\ pending = 0
    /\ evKey = 0
    /\ defaultPrevented = FALSE
    /\ last = [op |-> "select", el |-> selected, dir |-> NoDir, from |-> NULL,
               was |-> "true", threw |-> FALSE]

NextGeo == \E direction \in Directions \cup {"diagonal"} : GetNextElement(direction)

SpecGeo == InitGeo /\ [][NextGeo]_vars

\* The element scrolled to and at most one more that extends the content,
\* of one height, with left offsets from one left of the container's left
\* edge to one past its right edge.
ScrollLayouts ==
    UNION {[1..n -> {Element(x, y, height, FALSE) :
                        x \in -1..MaxCoord + 1, y \in 0..MaxCoord}] :
              n \in 1..2, height \in 1..MaxSize}

\* An enabled navigator with nothing selected, the scroll container and the
\* page scrolled anywhere.
InitScroll ==
    /\ dom \in ScrollLayouts
    /\ elements = getElements
    /\ selected = NULL
    /\ enabled = "true"
    /\ keydownHandler = 1
    /\ listeners = {1}
    /\ backref = TRUE
    /\ marked = {}
    /\ focused = 0
    /\ cScroll \in [left : 0..containerScrollMax.left, top : 0..containerScrollMax.top]
    /\ bScroll \in [left : 0..bodyScrollMax.left, top : 0..bodyScrollMax.top]
    /\ pending = 0
    /\ evKey = 0
    /\ defaultPrevented = FALSE
    /\ last = [op |-> "enable", el |-> NULL, dir |-> NoDir, from |-> NULL,
               was |-> "undefined", threw |-> FALSE]

NextScroll ==
    \E el \in Ids, direction \in Directions \cup {"diagonal"} : ScrollTo(el, direction)

SpecScroll == InitScroll /\ [][NextScroll]_vars

\* Up to three elements of one height laid out anyhow over one row more than
\* the free layouts have.
VertLayouts ==
    UNION {[1..n -> {Element(x, y, height, FALSE) :
                        x \in -1..MaxCoord, y \in 0..MaxCoord + 1}] :
              n \in 1..3, height \in 1..MaxSize}

\* The state enable() and then select(el) leave, for any element el of any
\* such layout.
InitVert ==
    /\ dom \in VertLayouts
    /\ elements = getElements
    /\ selected \in Ids
    /\ enabled = "true"
    /\ keydownHandler = 1
    /\ listeners = {1}
    /\ backref = TRUE
    /\ marked = {selected}
    /\ focused = 0
    /\ cScroll = [left |-> 0, top |-> 0]
    /\ bScroll = [left |-> 0, top |-> 0]
    /\ pending = 0
    /\ evKey = 0
    /\ defaultPrevented = FALSE
    /\ last = [op |-> "select", el |-> selected, dir |-> NoDir, from |-> NULL,
               was |-> "true", threw |-> FALSE]

\* The Up and Down keys pressed in any order.
NextVert ==
    \/ \E which \in {KeyUp, KeyDown} : KeyPress(which)
    \/ HandleKeydown

SpecVert == InitVert /\ [][NextVert]_vars

\* ================================================================= claims
\* The elements holding a visual marker: the selected class or input focus.
Markers == marked \cup (IF focused # 0 THEN {focused} ELSE {})

\* A bound key's handleKeydown has just run.
KeyStepDone == last.op = "handleKeydown" /\ last.dir \in Directions

\* C1: enable() is idempotent for listener registration: while the navigator
\* is enabled exactly one of its keydown listeners is registered, so a key
\* press reaches handleKeydown once.
C1_OneListenerWhileEnabled ==
    enabled = "true" => Cardinality(listeners) = 1 /\ pending <= 1

\* C2: whenever the navigator is disabled (not yet enabled, or disabled or
\* destroyed since) no element is selected, none carries the selected class
\* and none of its keydown listeners is registered.
C2_DisabledHoldsNothing ==
    enabled # "true" => ~IsElement(selected) /\ marked = {} /\ listeners = {}

\* C3: while enabled with an element selected, exactly one element holds a
\* visual marker (class or focus), and it is the selected element.
C3_OneMarker ==
    (enabled = "true" /\ IsElement(selected)) => Markers = {selected}

\* C4: a bound key handled while enabled, with no element selected and a
\* non-empty candidate sequence, selects the first candidate.
C4_FirstKeySelectsFirst ==
    (KeyStepDone /\ enabled = "true" /\ ~IsElement(last.from) /\ elements # <<>>)
        => selected = elements[1]

\* The step of handleKeydown that makes the initial selection: a bound key,
\* this.selected null, a first candidate.
InitialSelectionStep ==
    /\ HandleKeydown
    /\ selected = NULL
    /\ keys(evKey) \in Directions
    /\ elements # <<>>

\* C5 as claimed: the initial selection made by a bound key changes no scroll
\* offset, of the scroll container or of the page.
C5_InitialSelectionNoScroll ==
    [][InitialSelectionStep => UNCHANGED <<cScroll, bScroll>>]_vars

\* C5 as amended: the initial selection scrolls like any key-driven selection:
\* it leaves the offsets scrollTo(first candidate, direction) computes, so
\* they are unchanged when the first candidate is fully visible in the scroll
\* container and in the window.
C5_InitialSelectionScrollsTo ==
    [][InitialSelectionStep =>
          LET first == elements[1]
              scrolled == scrollTo(first, keys(evKey))
          IN  /\ cScroll' = scrolled.c
              /\ bScroll' = scrolled.b
              /\ (inScrollContainerViewport(first) /\ inViewport(first))
                    => UNCHANGED <<cScroll, bScroll>>]_vars

\* An initial selection that scrolled the page: nothing was selected before
\* it, so nothing else has written a scroll offset of the page.
C5_Witness ==
    /\ KeyStepDone
    /\ last.from = NULL
    /\ IsElement(last.el)
    /\ selected = last.el
    /\ bScroll.top # 0

\* C6: disable() and destroy() clear the stored selection: after them, and
\* after the enable() that follows with no element selected, this.selected
\* is absent, so that the next bound key takes the initial-selection path.
C6_DisableClearsStoredSelection ==
    /\ last.op \in {"disable", "destroy"} => selected = NULL
    /\ (last.op = "enable" /\ ~IsElement(selected)) => selected = NULL

\* C7: select(el, direction) with el null or the element already selected
\* changes nothing: selection, markers and scroll offsets stay as they are
\* (so the second of two consecutive select(el) calls applies no visual
\* effect and does not scroll).
C7_SelectSameIsNoop ==
    [][(last'.op = "select" /\ (last'.el = NULL \/ last'.el = selected))
          => UNCHANGED <<selected, marked, focused, cScroll, bScroll>>]_vars

\* select(el, direction) has run a second time on the selected element, which
\* lies outside the scroll container's visible box, with a direction.
C7_Witness ==
    /\ last.op = "select"
    /\ IsElement(last.el)
    /\ last.from = last.el
    /\ selected = last.el
    /\ last.dir \in Directions
    /\ ~inScrollContainerViewport(last.el)

\* C8: a Right key moves the selection to the candidate following it in
\* sequence order and a Left key to the one preceding it; at the last (Right)
\* or first (Left) candidate nothing changes: selection, markers, scroll.
C8_RightLeftNoWrap ==
    [][(HandleKeydown /\ IsElement(selected)
          /\ keys(evKey) \in {DIRECTION.right, DIRECTION.left}) =>
          LET i == IndexOf(selected)
              j == IF keys(evKey) = DIRECTION.right THEN i + 1 ELSE i - 1
          IN  /\ i > 0
              /\ IF j \in 1..Len(elements)
                 THEN selected' = elements[j]
                 ELSE UNCHANGED <<selected, marked, focused, cScroll, bScroll>>]_vars

\* A Right key has been handled with the last of several candidates selected.
C8_Witness ==
    /\ KeyStepDone
    /\ last.dir = DIRECTION.right
    /\ Len(elements) > 1
    /\ last.from = elements[Len(elements)]
    /\ last.el = NULL
    /\ selected = last.from

\* getNextElement(direction) has returned, called with an element selected.
Returned(direction) ==
    /\ last.op = "getNextElement"
    /\ last.dir = direction
    /\ ~last.threw
    /\ IsElement(selected)

DistinctPositions ==
    \A a, b \in Ids :
        (dom[a].offsetLeft = dom[b].offsetLeft /\ dom[a].offsetTop = dom[b].offsetTop)
            => a = b

\* Manhattan distance of candidate c from the anchor (left, top).
Manhattan(c, left, top) == Abs(dom[c].offsetLeft - left) + Abs(dom[c].offsetTop - top)

\* result is a nearest of the candidates cands to the anchor, absent exactly
\* when there are none.
NearestOf(result, cands, left, top) ==
    /\ result = NULL <=> cands = {}
    /\ result # NULL =>
          /\ result \in cands
          /\ \A c \in cands : Manhattan(result, left, top) <= Manhattan(c, left, top)

\* The candidates at or below the bottom edge of the selected element.
Below == {c \in Ids : dom[c].offsetTop >= dom[selected].offsetTop + dom[selected].offsetHeight}

\* C9 as claimed: with distinct (left, top) pairs, getNextElement(down)
\* returns a candidate nearest to the selection's bottom-left corner among
\* all candidates at or below its bottom edge, absent exactly when there are
\* none.
C9_DownNearestOfAllBelow ==
    (Returned(DIRECTION.down) /\ DistinctPositions) =>
        NearestOf(last.el, Below, dom[selected].offsetLeft,
                  dom[selected].offsetTop + dom[selected].offsetHeight)

\* C9 as amended: the same, among the candidates at or below the bottom edge
\* whose left offset is not negative.
C9_DownNearestOfNonNegativeLeft ==
    (Returned(DIRECTION.down) /\ DistinctPositions) =>
        NearestOf(last.el, {c \in Below : dom[c].offsetLeft >= 0},
                  dom[selected].offsetLeft,
                  dom[selected].offsetTop + dom[selected].offsetHeight)

\* getNextElement(down) has returned a candidate although another one below
\* the selection, left out for its negative left offset, is at least as near.
C9_Witness ==
    /\ Returned(DIRECTION.down)
    /\ DistinctPositions
    /\ IsElement(last.el)
    /\ \E c \in Below :
          /\ dom[c].offsetLeft < 0
          /\ Manhattan(c, dom[selected].offsetLeft,
                       dom[selected].offsetTop + dom[selected].offsetHeight)
               <= Manhattan(last.el, dom[selected].offsetLeft,
                            dom[selected].offsetTop + dom[selected].offsetHeight)

\* The candidates at or above the row just above the selected element.
Above == {c \in Ids : dom[c].offsetTop <= dom[selected].offsetTop - 1}

\* C10: getNextElement(up) returns a candidate nearest to the anchor
\* (selected.left, selected.top - 1) among all candidates whose top is at
\* most selected.top - 1, absent exactly when there are none; it never
\* returns the selected element.
C10_UpNearestOfAllAbove ==
    Returned(DIRECTION.up) =>
        /\ NearestOf(last.el, Above, dom[selected].offsetLeft,
                     dom[selected].offsetTop - 1)
        /\ last.el # selected

\* getNextElement(up) has returned the nearer of two candidates above the
\* selection, one of them left of the container.
C10_Witness ==
    /\ Returned(DIRECTION.up)
    /\ IsElement(last.el)
    /\ \E c \in Above : dom[c].offsetLeft < 0
    /\ \E c \in Above :
          Manhattan(c, dom[selected].offsetLeft, dom[selected].offsetTop - 1)
            > Manhattan(last.el, dom[selected].offsetLeft, dom[selected].offsetTop - 1)

\* The candidates the filter of a vertical direction keeps, and the anchor
\* their distances are measured from.
VerticalFiltered(direction) ==
    IF direction = DIRECTION.down THEN {c \in Below : dom[c].offsetLeft >= 0}
    ELSE Above

AnchorTop(direction) ==
    IF direction = DIRECTION.down
    THEN dom[selected].offsetTop + dom[selected].offsetHeight
    ELSE dom[selected].offsetTop - 1

\* C11: ties of the Down/Up minimisation go to the first encountered: of the
\* filtered candidates at the minimal distance from the anchor,
\* getNextElement returns the one that comes earliest in the candidate
\* sequence.
C11_FirstOfNearestWins ==
    \A direction \in {DIRECTION.down, DIRECTION.up} :
        (Returned(direction) /\ IsElement(last.el)) =>
            \A c \in VerticalFiltered(direction) :
                Manhattan(c, dom[selected].offsetLeft, AnchorTop(direction))
                    = Manhattan(last.el, dom[selected].offsetLeft, AnchorTop(direction))
                  => IndexOf(last.el) <= IndexOf(c)

\* getNextElement(up) or (down) has returned the earlier of two filtered
\* candidates that are equally near and nearest.
C11_Witness ==
    \E direction \in {DIRECTION.down, DIRECTION.up} :
        /\ Returned(direction)
        /\ IsElement(last.el)
        /\ \E c \in VerticalFiltered(direction) :
              /\ c # last.el
              /\ IndexOf(last.el) < IndexOf(c)
              /\ Manhattan(c, dom[selected].offsetLeft, AnchorTop(direction))
                    = Manhattan(last.el, dom[selected].offsetLeft, AnchorTop(direction))

\* The element is no larger than the scroll container.
FitsContainer(el) ==
    /\ dom[el].offsetWidth <= Container.offsetWidth
    /\ dom[el].offsetHeight <= Container.offsetHeight

\* C12: automatic scrolling keeps the selected item visible: after every
\* key-driven navigation step, in any of the four directions, that changes
\* the selection to a new target no larger than the scroll container,
\* inScrollContainerViewport(target) holds.
C12_TargetVisibleAfterKeyStep ==
    (/\ KeyStepDone
     /\ IsElement(last.el)
     /\ selected = last.el
     /\ last.from # last.el
     /\ FitsContainer(last.el))
        => inScrollContainerViewport(last.el)

\* The call that ran last and the one that runs now are disable() twice,
\* destroy() twice, or disable() after destroy().
SecondDisable ==
    /\ last.op \in {"disable", "destroy"}
    /\ last'.op \in {"disable", "destroy"}
    /\ last'.op = "destroy" => last.op = "destroy"

C14_InvalidDirectionThrows ==
    [][(last'.op = "getNextElement" /\ last'.dir \notin Directions) =>
          /\ last'.threw
          /\ last'.el = NULL
          /\ UNCHANGED <<selected, marked, focused, cScroll, bScroll>>]_vars

\* getNextElement has thrown for a direction outside the four on an enabled
\* navigator with nothing selected.
C14_Witness ==
    /\ last.op = "getNextElement"
    /\ last.dir \notin Directions
    /\ last.threw
    /\ enabled = "true"
    /\ selected = NULL
    /\ elements # <<>>

ScrollToRuns == last'.op = "scrollTo" /\ last'.dir \in Directions

Horizontal(direction) == direction \in {DIRECTION.left, DIRECTION.right}

\* C16: scrollTo changes at most one scroll offset, by precedence: if the
\* element fails the scroll-container check only the container's offset on
\* the axis of travel changes; otherwise, if it fails the window check, only
\* the page's offset on that axis changes; if it passes both, none changes.
C16_ScrollToOneOffset ==
    [][ScrollToRuns =>
          IF ~inScrollContainerViewport(last'.el) THEN
              /\ bScroll' = bScroll
              /\ IF Horizontal(last'.dir) THEN cScroll'.top = cScroll.top
                                          ELSE cScroll'.left = cScroll.left
          ELSE IF ~inViewport(last'.el) THEN
              /\ cScroll' = cScroll
              /\ IF Horizontal(last'.dir) THEN bScroll'.top = bScroll.top
                                          ELSE bScroll'.left = bScroll.left
          ELSE cScroll' = cScroll /\ bScroll' = bScroll]_vars

\* scrollTo has moved the scroll container for an element that is outside
\* the window as well, and has left the page where it was.
C16_Witness ==
    /\ last.op = "scrollTo"
    /\ last.dir \in Directions
    /\ last.cWas # cScroll
    /\ last.bWas = bScroll
    /\ ~inViewport(last.el)

\* How far the element's bottom / right edge lies beyond the visible bottom /
\* right edge of the scroll container.
BeyondBottom(el) ==
    dom[el].offsetTop + dom[el].offsetHeight - cScroll.top
        - (Container.offsetTop + Container.offsetHeight)

BeyondRight(el) ==
    dom[el].offsetLeft + dom[el].offsetWidth - cScroll.left
        - (Container.offsetLeft + Container.offsetWidth)

\* Down and Right of C17: with the element's bottom (right) edge beyond the
\* visible bottom (right) edge by D > 0, scrollTop (scrollLeft) grows by
\* exactly D and becomes el.top - container.top - (container.height -
\* el.height) (el.left - container.left - (container.width - el.width)).
FarEdgeAligned ==
    LET el == last'.el
    IN  /\ (last'.dir = DIRECTION.down /\ BeyondBottom(el) > 0) =>
              /\ cScroll'.top = cScroll.top + BeyondBottom(el)
              /\ cScroll'.top = dom[el].offsetTop - Container.offsetTop
                                  - (Container.offsetHeight - dom[el].offsetHeight)
        /\ (last'.dir = DIRECTION.right /\ BeyondRight(el) > 0) =>
              /\ cScroll'.left = cScroll.left + BeyondRight(el)
              /\ cScroll'.left = dom[el].offsetLeft - Container.offsetLeft
                                   - (Container.offsetWidth - dom[el].offsetWidth)

\* C17 as claimed: Down and Right align the far edges as above; Left and Up,
\* for an element outside the scroll container's view, set scrollLeft to
\* el.left - container.left and scrollTop to el.top - container.top.
C17_ScrollOffsetsExact ==
    [][ScrollToRuns =>
          /\ FarEdgeAligned
          /\ (last'.dir = DIRECTION.left /\ ~inScrollContainerViewport(last'.el)) =>
                cScroll'.left = dom[last'.el].offsetLeft - Container.offsetLeft
          /\ (last'.dir = DIRECTION.up /\ ~inScrollContainerViewport(last'.el)) =>
                cScroll'.top = dom[last'.el].offsetTop - Container.offsetTop]_vars

\* v limited to the range 0..max.
Limited(v, max) == IF v < 0 THEN 0 ELSE IF v > max THEN max ELSE v

\* C17 as amended: Down and Right as claimed; Left and Up set the offset to
\* el.left - container.left and el.top - container.top limited to the
\* container's scroll range, from 0 to its largest scroll offset.
C17_ScrollOffsetsLimited ==
    [][ScrollToRuns =>
          /\ FarEdgeAligned
          /\ (last'.dir = DIRECTION.left /\ ~inScrollContainerViewport(last'.el)) =>
                cScroll'.left = Limited(dom[last'.el].offsetLeft - Container.offsetLeft,
                                        containerScrollMax.left)
          /\ (last'.dir = DIRECTION.up /\ ~inScrollContainerViewport(last'.el)) =>
                cScroll'.top = Limited(dom[last'.el].offsetTop - Container.offsetTop,
                                       containerScrollMax.top)]_vars

\* scrollTo(el, down) has raised scrollTop so that the element's bottom edge
\* lies on the container's, and scrollTo(el, left) on the same layout would
\* be limited by the scroll range.
C17_Witness ==
    /\ last.op = "scrollTo"
    /\ last.dir = DIRECTION.down
    /\ last.cWas.top < cScroll.top
    /\ cScroll.top = dom[last.el].offsetTop - Container.offsetTop
                       - (Container.offsetHeight - dom[last.el].offsetHeight)
    /\ \E el \in Ids :
          dom[el].offsetLeft - Container.offsetLeft > containerScrollMax.left

\* The elements of a sequence.
Range(seq) == {seq[i] : i \in 1..Len(seq)}

\* The top bounds the filters are tried with: from above the highest element
\* to below the lowest.
Tops == (Container.offsetTop - 1)..(Container.offsetTop + MaxCoord + MaxSize)

\* C18 as claimed: the Down/Up filters are vertical-only: whatever the left
\* offsets, negative ones included, elementsAfter(0, top) holds every
\* candidate with offsetTop >= top and elementsBefore(Infinity, top) every
\* candidate with offsetTop <= top.
C18_FiltersVerticalOnly ==
    /\ Returned(DIRECTION.down) =>
          \A top \in Tops :
              Range(elementsAfter(0, top))
                = {c \in Range(elements) : dom[c].offsetTop >= top}
    /\ Returned(DIRECTION.up) =>
          \A top \in Tops :
              Range(elementsBefore(Infinity, top))
                = {c \in Range(elements) : dom[c].offsetTop <= top}

\* C18 as amended: elementsAfter(0, top) holds the candidates with
\* offsetTop >= top whose left offset is not negative; elementsBefore(
\* Infinity, top) holds every candidate with offsetTop <= top.
C18_AfterNeedsNonNegativeLeft ==
    /\ Returned(DIRECTION.down) =>
          \A top \in Tops :
              Range(elementsAfter(0, top))
                = {c \in Range(elements) :
                      dom[c].offsetTop >= top /\ dom[c].offsetLeft >= 0}
    /\ Returned(DIRECTION.up) =>
          \A top \in Tops :
              Range(elementsBefore(Infinity, top))
                = {c \in Range(elements) : dom[c].offsetTop <= top}

\* getNextElement(down) has filtered candidates below the selection of which
\* one has a negative left offset and one has left offset 0, and has
\* returned one.
C18_Witness ==
    /\ Returned(DIRECTION.down)
    /\ IsElement(last.el)
    /\ \E c \in Below : dom[c].offsetLeft < 0
    /\ \E c \in Below : dom[c].offsetLeft = 0

\* A key step in the given direction runs now and takes the selection from
\* one element to another.
VertStep(direction) ==
    /\ last'.op = "handleKeydown"
    /\ last'.dir = direction
    /\ IsElement(selected)
    /\ selected' # selected

\* The candidates whose top lies strictly beyond the selection's in the
\* given vertical direction: a bound on the steps that can still change the
\* selection.
Remaining(direction) ==
    IF ~IsElement(selected) THEN {}
    ELSE {c \in Range(elements) :
             IF direction = DIRECTION.down
             THEN dom[c].offsetTop > dom[selected].offsetTop
             ELSE dom[c].offsetTop < dom[selected].offsetTop}

\* C19: vertical navigation makes strict progress and cannot cycle: elements
\* having positive heights, every Down key step that changes the selection
\* moves it to a strictly larger top offset and every Up key step to a
\* strictly smaller one; each such step takes at least one candidate out of
\* those still ahead, which are fewer than the candidates, so repeated Down
\* (or Up) presses change the selection fewer times than there are
\* candidates and then leave it as it is.
C19_VerticalStrictProgress ==
    [][
        /\ VertStep(DIRECTION.down) =>
             /\ IsElement(selected')
             /\ dom[selected'].offsetTop > dom[selected].offsetTop
             /\ Cardinality(Remaining(DIRECTION.down)') < Cardinality(Remaining(DIRECTION.down))
             /\ Cardinality(Remaining(DIRECTION.down)) < Len(elements)
        /\ VertStep(DIRECTION.up) =>
             /\ IsElement(selected')
             /\ dom[selected'].offsetTop < dom[selected].offsetTop
             /\ Cardinality(Remaining(DIRECTION.up)') < Cardinality(Remaining(DIRECTION.up))
             /\ Cardinality(Remaining(DIRECTION.up)) < Len(elements)
        /\ (last'.op = "handleKeydown" /\ IsElement(selected)
              /\ last'.dir \in {DIRECTION.down, DIRECTION.up}
              /\ Remaining(last'.dir) = {}) => selected' = selected
    ]_vars

\* A Down key step has moved the selection to an element further down, and
\* another candidate lies further down still.
C19_Witness ==
    /\ KeyStepDone
    /\ last.dir = DIRECTION.down
    /\ IsElement(last.from)
    /\ IsElement(selected)
    /\ selected = last.el
    /\ dom[selected].offsetTop > dom[last.from].offsetTop
    /\ \E c \in Remaining(DIRECTION.down) :
          /\ dom[c].offsetLeft >= 0
          /\ dom[c].offsetTop >= dom[selected].offsetTop + dom[selected].offsetHeight

\* C20: the candidate sequence is built only by enable(): enable() stores
\* the elements the selector matches at that moment; key steps, select(),
\* unselect(), scrollTo(), getNextElement(), disable() and destroy() leave
\* the stored sequence and its order as they are, so a sequence that the
\* document has outgrown persists until the next enable().
C20_ElementsOnlyByEnable ==
    [][/\ last'.op = "enable" => elements' = getElements'
       /\ last'.op # "enable" => elements' = elements]_vars

\* A bound key has been handled, and the navigator has been disabled, with
\* a candidate sequence that lacks an element added since the last scan.
C20_Witness ==
    /\ last.op \in {"disable", "destroy"}
    /\ defaultPrevented
    /\ elements # <<>>
    /\ elements # getElements
    /\ marked = {}

====
